---- MODULE Spec2Model ----
(***************************************************************************)
(* PirateBox: the SQLite store (app/db.py), the upload streamer            *)
(* (db.store_upload) and the HTTP handlers of app/main.py that call them.  *)
(*                                                                         *)
(* Every request runs on its own connection (db._connect), so a request is *)
(* a process p \in Procs with a program counter pc[p] and locals loc[p].   *)
(* SQLite gives each connection an implicit transaction that starts at its *)
(* first INSERT and holds the database write lock until commit/rollback;   *)
(* readers see the committed database only (journal_mode=WAL).             *)
(***************************************************************************)
EXTENDS Integers, Sequences, FiniteSets, TLC

\* ------------------------------------------------------------------ bounds
\* rows a table may hold (requests that would exceed it are not started)
MaxRows == 3
\* forum threads and posts the store may hold
MaxThreads == 2
MaxPosts == 3
\* store_upload calls
MaxUploads == 2
\* after_id and limit arguments tried by the read requests
MaxAfterId == 3
MaxLimit == 3
\* seconds the wall clock may advance
MaxClock == 2
\* longest raw text given to the normalizers
MaxTextLen == 5

\* ------------------------------------------------- program constants (scaled)
\* main.py:189 passes limit=200 to list_chat_messages; scaled to 2 rows
POLL_LIMIT == 2
\* main.py:173 passes limit=50 to list_chat_messages; scaled to 2 rows
CHAT_PAGE_LIMIT == 2
\* db.py:19-21, scaled
\* db.py:318 reads 1024 * 1024 bytes at a time; db.py:322 refuses more than
\* MAX_UPLOAD_MB * 1024 * 1024 bytes; both scaled
CHUNK_SIZE == 1
MAX_UPLOAD_BYTES == 2
MAX_NICKNAME_LEN == 2
MAX_MESSAGE_LEN == 3
MAX_THREAD_TITLE_LEN == 2
\* main.py:115 sets the cookie with max_age = 60 * 60 * 24 * 7 seconds; scaled
COOKIE_MAX_AGE == 1

\* two requests in flight at a time
Procs == {1, 2}
NoProc == 0
TableNames == {"files", "chat_messages", "forum_threads", "forum_posts"}

\* Texts are sequences of one-character strings.
Nicknames == {<<"S">>}
Messages == {<<"h">>}
Titles == {<<"T">>}
Bodies == {<<"f">>}
\* thread ids given to insert_post / reply_thread: 0 never exists
ThreadIdInputs == 0..MaxThreads
\* Python's None, for an absent form field
None == <<"None">>
\* raw form fields of the HTTP requests
RawTexts == {None, <<" ">>, <<" ", "h", " ", " ", "w", "x">>}
\* what file_obj.read(CHUNK_SIZE) may return: up to CHUNK_SIZE bytes, or
\* nothing at the end of the stream
Bytes == {0, 1}
Reads == UNION {[1..n -> Bytes] : n \in 0..CHUNK_SIZE}
FileNames == {<<"d">>}
\* SQL NULL
Null == -1
\* the clients of the captive portal, each with its own cookie jar
Clients == {1, 2}
\* a jar without the cookie; a cookie is its value and the time up to which
\* the jar keeps sending it
NoCookie == [value |-> "absent", expires |-> 0]
NoResponse == [client |-> 0, url |-> "", sent |-> "absent", status |-> 0, body |-> "",
               media_type |-> "", location |-> "", line |-> 0, next |-> <<>>,
               next_url |-> <<>>,
               set_cookie |-> NoCookie]

VARIABLES
    db,         \* the committed database: one sequence of rows per table, in commit order
    pend,       \* pend[p]: rows connection p has inserted and not yet committed
    writer,     \* the connection holding SQLite's write lock, or NoProc
    pc,         \* pc[p]: where request p stands
    loc,        \* loc[p]: the locals of request p
    now,        \* the wall clock read by _utc_now, in seconds
    last_id,    \* polling client: largest chat id received so far
    received,   \* polling client: ids received, in the order received
    reply,      \* the answer to the latest read request, with its arguments
    blobs,      \* FILES_DIR: file name -> content
    issued,     \* how many names uuid4 has produced
    uploaded,   \* history: <<id, bytes>> of every upload that returned a StoredFile
    cookies,    \* cookies[c]: the piratebox_captive_ack cookie in client c's jar
    response,   \* the latest response of the captive portal, with its request
    state,      \* e-paper: the State object shared by the main loop and the buttons
    display,    \* e-paper: the panel behind the DisplayDriver
    mainloop,   \* e-paper: position and locals of main's refresh loop
    button      \* e-paper: the ButtonWatcher, the callback it is running, and
                \* (history) the page selected by the latest press, until drawn

vars == <<db, pend, writer, pc, loc, now, last_id, received, reply, blobs, issued, uploaded,
          cookies, response, state, display, mainloop, button>>
epdVars == <<state, display, mainloop, button>>
portalVars == <<cookies, response>>
clientVars == <<last_id, received>>
fsVars == <<blobs, issued, uploaded>>

\* ------------------------------------------------------------ helpers
Max(S) == CHOOSE x \in S : \A y \in S : y <= x
Min2(a, b) == IF a <= b THEN a ELSE b
Rows(s) == {s[i] : i \in DOMAIN s}
Ids(s) == {s[i].id : i \in DOMAIN s}

\* ORDER BY id ASC / DESC over a set of rows
RECURSIVE OrderByIdAsc(_)
OrderByIdAsc(S) ==
    IF S = {} THEN <<>>
    ELSE LET m == CHOOSE r \in S : \A q \in S : r.id <= q.id
         IN <<m>> \o OrderByIdAsc(S \ {m})

RECURSIVE OrderByIdDesc(_)
OrderByIdDesc(S) ==
    IF S = {} THEN <<>>
    ELSE LET m == CHOOSE r \in S : \A q \in S : r.id >= q.id
         IN <<m>> \o OrderByIdDesc(S \ {m})

\* LIMIT n (SQLite: a negative n is no limit)
Limit(s, n) == IF n < 0 THEN s ELSE SubSeq(s, 1, Min2(n, Len(s)))

\* ------------------------------------------------------------ the store
EmptyTx == [t \in TableNames |-> <<>>]

EmptyDb == [files |-> <<>>, chat_messages |-> <<>>, forum_threads |-> <<>>,
            forum_posts |-> <<>>, seq |-> [t \in TableNames |-> 0]]

\* INTEGER PRIMARY KEY AUTOINCREMENT: one more than the largest id the table
\* ever held (sqlite_sequence) and than any row this transaction added.
NextId(d, pn, t) == Max({d.seq[t]} \cup Ids(d[t]) \cup Ids(pn[t])) + 1

\* conn.execute("INSERT ..."): the row joins the connection's transaction.
Insert(d, pn, t, row) ==
    [pn EXCEPT ![t] = Append(@, [row EXCEPT !.id = NextId(d, pn, t)])]

\* conn.commit(): the transaction's rows become visible, sqlite_sequence advances.
Commit(d, pn) ==
    [files |-> d.files \o pn.files,
     chat_messages |-> d.chat_messages \o pn.chat_messages,
     forum_threads |-> d.forum_threads \o pn.forum_threads,
     forum_posts |-> d.forum_posts \o pn.forum_posts,
     seq |-> [t \in TableNames |-> Max({d.seq[t]} \cup Ids(pn[t]))]]

\* SQLite allows one write transaction at a time: the first INSERT of a
\* connection takes the write lock, which commit or rollback releases.
LockAvailableNoLock(w, p) == TRUE
LockAvailable(w, p) == w = NoProc \/ w = p

\* `with conn:` left by an exception: roll back, nothing of pn is kept.
ExitOnErrorCommits(d, pn) == Commit(d, pn)
ExitOnError(d, pn) == d

\* ------------------------------------------------------------ chat queries
list_chat_messagesInclusive(d, after_id, limit) ==
    Limit(OrderByIdAsc({r \in Rows(d.chat_messages) : r.id >= after_id}), limit)
list_chat_messagesNewestFirst(d, after_id, limit) ==
    Limit(OrderByIdDesc({r \in Rows(d.chat_messages) : r.id > after_id}), limit)
list_chat_messages(d, after_id, limit) ==
    Limit(OrderByIdAsc({r \in Rows(d.chat_messages) : r.id > after_id}), limit)

\* GET /api/chat/messages
chat_messages(d, after_id) == list_chat_messages(d, after_id, POLL_LIMIT)

\* ------------------------------------------------------------ normalizers
IsSpace(c) == c \in {" ", "\t", "\n"}

\* str.split(): the maximal runs of non-whitespace characters
RECURSIVE SplitAcc(_, _, _)
SplitAcc(s, words, cur) ==
    IF s = <<>> THEN (IF cur = <<>> THEN words ELSE Append(words, cur))
    ELSE IF IsSpace(Head(s))
         THEN SplitAcc(Tail(s), IF cur = <<>> THEN words ELSE Append(words, cur), <<>>)
         ELSE SplitAcc(Tail(s), words, Append(cur, Head(s)))
Split(s) == SplitAcc(s, <<>>, <<>>)

\* str.strip()
RECURSIVE LStrip(_)
LStrip(s) == IF s # <<>> /\ IsSpace(Head(s)) THEN LStrip(Tail(s)) ELSE s
RECURSIVE RStrip(_)
RStrip(s) == IF s # <<>> /\ IsSpace(s[Len(s)]) THEN RStrip(SubSeq(s, 1, Len(s) - 1)) ELSE s
Strip(s) == RStrip(LStrip(s))

\* " ".join(words)
RECURSIVE Join(_)
JoinTwoSpaces(words) ==
    IF words = <<>> THEN <<>>
    ELSE IF Len(words) = 1 THEN words[1]
    ELSE words[1] \o <<" ", " ">> \o Join(Tail(words))
Join(words) ==
    IF words = <<>> THEN <<>>
    ELSE IF Len(words) = 1 THEN words[1]
    ELSE words[1] \o <<" ">> \o Join(Tail(words))

\* clean[:n]: the first n characters, or all but the last -n when n < 0
PrefixWhole(s, n) == s
Prefix(s, n) ==
    IF n >= 0 THEN SubSeq(s, 1, Min2(n, Len(s)))
    ELSE SubSeq(s, 1, Max({0, Len(s) + n}))

Anonymous == <<"A", "n", "o", "n", "y", "m", "o", "u", "s">>
\* normalize_nickname when PIRATEBOX_MAX_NICKNAME_LEN was read as max_nickname_len
normalize_nicknameConfigured(value, max_nickname_len) ==
    IF value = None \/ value = <<>> THEN Anonymous
    ELSE LET clean == Join(Split(Strip(value)))
         IN IF clean = <<>> THEN Anonymous
            ELSE Prefix(clean, max_nickname_len)
normalize_nickname(value) == normalize_nicknameConfigured(value, MAX_NICKNAME_LEN)

normalize_messageKeepsSpace(value, max_len) ==
    IF value = None \/ value = <<>> THEN <<>> ELSE Prefix(value, max_len)
normalize_message(value, max_len) ==
    IF value = None \/ value = <<>> THEN <<>>
    ELSE Prefix(Join(Split(Strip(value))), max_len)

\* ------------------------------------------------------------ requests
NoLocals == [op |-> "none", result |-> "none", id |-> 0, thread_id |-> 0,
             nickname |-> <<>>, message |-> <<>>, title |-> <<>>, created_at |-> 0,
             original_name |-> <<>>, stored_name |-> 0, stream |-> <<>>,
             size_bytes |-> 0, digest |-> 0, sha256 |-> <<>>, raised_at |-> "none"]

NoReply == [op |-> "none", after_id |-> 0, limit |-> 0, rows |-> <<>>]

Idle(p) == pc[p] = "idle"

\* rows of table t committed or being inserted by a request in flight
InFlight(t, ops) ==
    Len(db[t]) + Cardinality({p \in Procs : loc[p].op \in ops /\ pc[p] # "done"})

InitStore ==
    /\ db = EmptyDb
    /\ pend = [p \in Procs |-> EmptyTx]
    /\ writer = NoProc
    /\ pc = [p \in Procs |-> "idle"]
    /\ loc = [p \in Procs |-> NoLocals]
    /\ now = 0
    /\ last_id = 0
    /\ received = <<>>
    /\ reply = NoReply
    /\ blobs = <<>>
    /\ issued = 0
    /\ uploaded = {}

\* --- the e-paper status display at start-up -----------------------------------
\* how ButtonWatcher.__init__ ends: callbacks on gpiozero's thread, pins polled
\* by the main loop with RPi.GPIO, or no buttons
ButtonModes == {"gpiozero", "polling", "none"}
\* the four buttons, in the order of DEFAULT_BUTTON_PINS
Pins == 1..4
\* PAGES: status, network, piratebox
total_pages == 3
\* snapshots of the statistics that differ by more than the refresh thresholds
StatsValues == {0, 1}

\* main() before its loop, with the outcome of ButtonWatcher.__init__ and the
\* setting PIRATEBOX_EPD_REFRESH_ON_CHANGE
DisplayAt(mode, on_change) ==
    /\ state = [page |-> 0, sleeping |-> FALSE, force_refresh |-> TRUE]
    /\ display = [power |-> "awake", page |-> Null, full |-> FALSE]
    /\ mainloop = [pc |-> "poll", page |-> 0, stats |-> 0, last_drawn |-> Null,
                   full_refresh |-> FALSE, loop_count |-> 0, on_change |-> on_change]
    /\ button = [mode |-> mode, pc |-> "idle", page |-> 0,
                 last_states |-> [i \in Pins |-> 1], asked |-> Null]

\* no client has been seen yet
Init ==
    /\ InitStore
    /\ DisplayAt("none", TRUE)
    /\ cookies = [c \in Clients |-> NoCookie]
    /\ response = NoResponse

\* --- generic transaction steps ----------------------------------------
\* about to run the first INSERT of a with-block
ExecutePcs == {"icm_execute", "ct_thread", "ip_execute", "if_execute"}
\* inside a with-block, after its first INSERT
InTxPcs == {"icm_commit", "ct_post", "ct_commit", "ip_commit", "if_commit"}

\* sqlite3.OperationalError("database is locked"): another connection holds
\* the write lock past the busy timeout; the with-block rolls back and raises.
SqliteBusy(p) ==
    /\ pc[p] \in ExecutePcs
    /\ ~LockAvailable(writer, p)
    /\ pc' = [pc EXCEPT ![p] = "done"]
    /\ loc' = [loc EXCEPT ![p].result = "database is locked", ![p].raised_at = pc[p]]
    /\ db' = ExitOnError(db, pend[p])
    /\ pend' = [pend EXCEPT ![p] = EmptyTx]
    /\ UNCHANGED <<epdVars, portalVars, writer, now, clientVars, reply, fsVars>>

\* a storage fault (disk full, I/O error) inside the with-block, after the
\* connection began writing: the with-block rolls back and raises.
SqliteFault(p) ==
    /\ pc[p] \in InTxPcs
    /\ pc' = [pc EXCEPT ![p] = "done"]
    /\ loc' = [loc EXCEPT ![p].result = "StorageFault", ![p].raised_at = pc[p]]
    /\ db' = ExitOnError(db, pend[p])
    /\ pend' = [pend EXCEPT ![p] = EmptyTx]
    /\ writer' = IF writer = p THEN NoProc ELSE writer
    /\ UNCHANGED <<epdVars, portalVars, now, clientVars, reply, fsVars>>

\* conn.commit() at the end of a with-block
CommitTx(p) ==
    /\ db' = Commit(db, pend[p])
    /\ pend' = [pend EXCEPT ![p] = EmptyTx]
    /\ writer' = IF writer = p THEN NoProc ELSE writer

\* the request is answered; the process takes the next request
Return(p) ==
    /\ pc[p] = "done"
    /\ pc' = [pc EXCEPT ![p] = "idle"]
    /\ loc' = [loc EXCEPT ![p] = NoLocals]
    /\ UNCHANGED <<epdVars, portalVars, db, pend, writer, now, clientVars, reply, fsVars>>

\* --- insert_chat_message ------------------------------------------------
insert_chat_messageBegin(p, nickname, message) ==
    /\ Idle(p)
    /\ InFlight("chat_messages", {"insert_chat_message"}) < MaxRows
    /\ pc' = [pc EXCEPT ![p] = "icm_execute"]
    /\ loc' = [loc EXCEPT ![p] = [NoLocals EXCEPT !.op = "insert_chat_message",
                    !.nickname = nickname, !.message = message, !.created_at = now]]
    /\ UNCHANGED <<epdVars, portalVars, db, pend, writer, now, clientVars, reply, fsVars>>

insert_chat_messageExecute(p) ==
    /\ pc[p] = "icm_execute"
    /\ LockAvailable(writer, p)
    /\ writer' = p
    /\ pend' = [pend EXCEPT ![p] = Insert(db, @, "chat_messages",
                    [id |-> 0, nickname |-> loc[p].nickname, message |-> loc[p].message,
                     created_at |-> loc[p].created_at])]
    /\ pc' = [pc EXCEPT ![p] = "icm_commit"]
    /\ loc' = [loc EXCEPT ![p].id = NextId(db, pend[p], "chat_messages")]
    /\ UNCHANGED <<epdVars, portalVars, db, now, clientVars, reply, fsVars>>

insert_chat_messageCommit(p) ==
    /\ pc[p] = "icm_commit"
    /\ CommitTx(p)
    /\ pc' = [pc EXCEPT ![p] = "done"]
    /\ loc' = [loc EXCEPT ![p].result = "ok"]
    /\ UNCHANGED <<epdVars, portalVars, now, clientVars, reply, fsVars>>

\* a read request db.list_chat_messages(after_id, limit)
list_chat_messagesCall(after_id, limit) ==
    /\ reply' = [op |-> "list_chat_messages", after_id |-> after_id, limit |-> limit,
                 rows |-> list_chat_messages(db, after_id, limit)]
    /\ UNCHANGED <<epdVars, portalVars, db, pend, writer, pc, loc, now, clientVars, fsVars>>

\* --- the chat page's polling client ---------------------------------------
\* polls GET /api/chat/messages?after_id=<largest id received so far>
ClientPoll ==
    LET messages == chat_messages(db, last_id)
    IN /\ received' = received \o [i \in 1..Len(messages) |-> messages[i].id]
       /\ last_id' = IF messages = <<>> THEN last_id
                     ELSE Max({last_id} \cup Ids(messages))
       /\ UNCHANGED <<epdVars, portalVars, db, pend, writer, pc, loc, now, reply, fsVars>>

ChatWrites ==
    \/ \E p \in Procs, n \in Nicknames, m \in Messages : insert_chat_messageBegin(p, n, m)
    \/ \E p \in Procs : insert_chat_messageExecute(p)
    \/ \E p \in Procs : insert_chat_messageCommit(p)
    \/ \E p \in Procs : SqliteBusy(p)
    \/ \E p \in Procs : SqliteFault(p)
    \/ \E p \in Procs : Return(p)

\* concurrent chat posts and one polling client
NextChat ==
    \/ ChatWrites
    \/ ClientPoll

SpecChat == Init /\ [][NextChat]_vars

\* the polling client keeps polling
SpecChatLive == SpecChat /\ WF_vars(ClientPoll)

\* concurrent chat posts and read requests with any arguments
NextChatRead ==
    \/ ChatWrites
    \/ \E a \in -1..MaxAfterId, l \in 0..MaxLimit : list_chat_messagesCall(a, l)

SpecChatRead == Init /\ [][NextChatRead]_vars

\* --- GET /chat ---------------------------------------------------------------
\* the context chat_page gives to the chat.html template
chat_page ==
    LET messages == list_chat_messages(db, 0, CHAT_PAGE_LIMIT)
    IN /\ reply' = [op |-> "chat_page", messages |-> messages,
                    last_id |-> IF messages # <<>> THEN messages[Len(messages)].id ELSE 0]
       /\ UNCHANGED <<epdVars, portalVars, db, pend, writer, pc, loc, now, clientVars, fsVars>>

NextChatPage ==
    \/ ChatWrites
    \/ chat_page

SpecChatPage == Init /\ [][NextChatPage]_vars

\* --- the wall clock -----------------------------------------------------------
\* datetime.now(timezone.utc).replace(microsecond=0): a second has passed
Tick ==
    /\ now < MaxClock
    /\ now' = now + 1
    /\ UNCHANGED <<epdVars, portalVars, db, pend, writer, pc, loc, clientVars, reply, fsVars>>

\* concurrent chat posts while time passes
NextChatClock ==
    \/ ChatWrites
    \/ Tick

SpecChatClock == Init /\ [][NextChatClock]_vars

\* --- forum queries ---------------------------------------------------------
\* the thread row with its aggregates post_count and last_activity
ThreadSummary(d, t) ==
    LET mine == {i \in DOMAIN d.forum_posts : d.forum_posts[i].thread_id = t.id}
    IN [id |-> t.id, title |-> t.title, nickname |-> t.nickname,
        created_at |-> t.created_at,
        post_count |-> Cardinality(mine),
        last_activity |-> IF mine = {} THEN Null
                          ELSE Max({d.forum_posts[i].created_at : i \in mine})]

list_threadsOldestFirst(d, limit) ==
    Limit(OrderByIdAsc({ThreadSummary(d, t) : t \in Rows(d.forum_threads)}), limit)
list_threads(d, limit) ==
    Limit(OrderByIdDesc({ThreadSummary(d, t) : t \in Rows(d.forum_threads)}), limit)

\* fetchone(): a sequence of no row or one row
get_thread(d, thread_id) ==
    LET found == {ThreadSummary(d, t) : t \in {r \in Rows(d.forum_threads) : r.id = thread_id}}
    IN IF found = {} THEN <<>> ELSE <<CHOOSE r \in found : TRUE>>

list_posts(d, thread_id) ==
    OrderByIdAsc({r \in Rows(d.forum_posts) : r.thread_id = thread_id})

\* --- create_thread -------------------------------------------------------
ThreadPcs == {"ct_thread", "ct_post", "ct_commit"}
PostPcs == ThreadPcs \cup {"ip_execute", "ip_commit"}
Busy(pcs) == Cardinality({p \in Procs : pc[p] \in pcs})

create_threadBegin(p, title, nickname, message) ==
    /\ Idle(p)
    /\ Len(db.forum_threads) + Busy(ThreadPcs) < MaxThreads
    /\ Len(db.forum_posts) + Busy(PostPcs) < MaxPosts
    /\ pc' = [pc EXCEPT ![p] = "ct_thread"]
    /\ loc' = [loc EXCEPT ![p] = [NoLocals EXCEPT !.op = "create_thread",
                    !.title = title, !.nickname = nickname, !.message = message,
                    !.created_at = now]]
    /\ UNCHANGED <<epdVars, portalVars, db, pend, writer, now, clientVars, reply, fsVars>>

\* the thread row the first INSERT of create_thread adds
ThreadRow(l) == [id |-> 0, title |-> l.title, nickname |-> l.nickname,
                 created_at |-> l.created_at]

\* the post row create_thread and insert_post add
PostRow(l) == [id |-> 0, thread_id |-> l.thread_id, nickname |-> l.nickname,
                message |-> l.message, created_at |-> l.created_at]

create_threadInsertThread(p) ==
    /\ pc[p] = "ct_thread"
    /\ LockAvailable(writer, p)
    /\ writer' = p
    /\ pend' = [pend EXCEPT ![p] = Insert(db, @, "forum_threads", ThreadRow(loc[p]))]
    /\ loc' = [loc EXCEPT ![p].thread_id = NextId(db, pend[p], "forum_threads")]
    /\ pc' = [pc EXCEPT ![p] = "ct_post"]
    /\ UNCHANGED <<epdVars, portalVars, db, now, clientVars, reply, fsVars>>

create_threadInsertPost(p) ==
    /\ pc[p] = "ct_post"
    /\ pend' = [pend EXCEPT ![p] = Insert(db, @, "forum_posts", PostRow(loc[p]))]
    /\ pc' = [pc EXCEPT ![p] = "ct_commit"]
    /\ UNCHANGED <<epdVars, portalVars, db, writer, loc, now, clientVars, reply, fsVars>>

create_threadCommit(p) ==
    /\ pc[p] = "ct_commit"
    /\ CommitTx(p)
    /\ pc' = [pc EXCEPT ![p] = "done"]
    /\ loc' = [loc EXCEPT ![p].result = "ok"]
    /\ UNCHANGED <<epdVars, portalVars, now, clientVars, reply, fsVars>>

\* --- insert_post -----------------------------------------------------------
\* _connect never runs PRAGMA foreign_keys=ON, and SQLite's default is OFF:
\* the FOREIGN KEY clause of forum_posts is declared and not enforced.
foreign_keys == FALSE

ForeignKeyViolation(d, pn, thread_id) ==
    foreign_keys /\ thread_id \notin Ids(d.forum_threads) \cup Ids(pn.forum_threads)

insert_postBegin(p, thread_id, nickname, message) ==
    /\ Idle(p)
    /\ Len(db.forum_posts) + Busy(PostPcs) < MaxPosts
    /\ pc' = [pc EXCEPT ![p] = "ip_execute"]
    /\ loc' = [loc EXCEPT ![p] = [NoLocals EXCEPT !.op = "insert_post",
                    !.thread_id = thread_id, !.nickname = nickname,
                    !.message = message, !.created_at = now]]
    /\ UNCHANGED <<epdVars, portalVars, db, pend, writer, now, clientVars, reply, fsVars>>

insert_postExecute(p) ==
    /\ pc[p] = "ip_execute"
    /\ LockAvailable(writer, p)
    /\ IF ForeignKeyViolation(db, pend[p], loc[p].thread_id)
       THEN /\ pc' = [pc EXCEPT ![p] = "done"]
            /\ loc' = [loc EXCEPT ![p].result = "IntegrityError"]
            /\ UNCHANGED <<epdVars, portalVars, pend, writer>>
       ELSE /\ writer' = p
            /\ pend' = [pend EXCEPT ![p] = Insert(db, @, "forum_posts", PostRow(loc[p]))]
            /\ loc' = [loc EXCEPT ![p].id = NextId(db, pend[p], "forum_posts")]
            /\ pc' = [pc EXCEPT ![p] = "ip_commit"]
    /\ UNCHANGED <<epdVars, portalVars, db, now, clientVars, reply, fsVars>>

insert_postCommit(p) ==
    /\ pc[p] = "ip_commit"
    /\ CommitTx(p)
    /\ pc' = [pc EXCEPT ![p] = "done"]
    /\ loc' = [loc EXCEPT ![p].result = "ok"]
    /\ UNCHANGED <<epdVars, portalVars, now, clientVars, reply, fsVars>>

ForumSteps ==
    \/ \E p \in Procs : create_threadInsertThread(p)
    \/ \E p \in Procs : create_threadInsertPost(p)
    \/ \E p \in Procs : create_threadCommit(p)
    \/ \E p \in Procs : insert_postExecute(p)
    \/ \E p \in Procs : insert_postCommit(p)
    \/ \E p \in Procs : SqliteBusy(p)
    \/ \E p \in Procs : SqliteFault(p)
    \/ \E p \in Procs : Return(p)

\* the store's forum interface, called with any arguments
NextForum ==
    \/ \E p \in Procs, t \in Titles, n \in Nicknames, m \in Bodies :
            create_threadBegin(p, t, n, m)
    \/ \E p \in Procs, k \in ThreadIdInputs, n \in Nicknames, m \in Bodies :
            insert_postBegin(p, k, n, m)
    \/ ForumSteps

SpecForum == Init /\ [][NextForum]_vars

\* a sequence of forum operations, one at a time, while the clock advances
NextForumSeq ==
    \/ \E t \in Titles, n \in Nicknames, m \in Bodies : create_threadBegin(1, t, n, m)
    \/ \E k \in ThreadIdInputs, n \in Nicknames, m \in Bodies : insert_postBegin(1, k, n, m)
    \/ create_threadInsertThread(1)
    \/ create_threadInsertPost(1)
    \/ create_threadCommit(1)
    \/ insert_postExecute(1)
    \/ insert_postCommit(1)
    \/ SqliteFault(1)
    \/ Return(1)
    \/ Tick
SpecForumSeq == Init /\ [][NextForumSeq]_vars

\* --- HTTP handlers of the forum -------------------------------------------
\* POST /forum
create_forum_thread(p, title, nickname, message) ==
    LET clean_title == normalize_message(title, MAX_THREAD_TITLE_LEN)
        clean_nick == normalize_nickname(nickname)
        clean_message == normalize_message(message, MAX_MESSAGE_LEN)
    IN /\ Idle(p)
       /\ Len(db.forum_threads) + Busy(ThreadPcs) < MaxThreads
       /\ Len(db.forum_posts) + Busy(PostPcs) < MaxPosts
       /\ IF clean_title = <<>> \/ clean_message = <<>>
          THEN /\ pc' = [pc EXCEPT ![p] = "done"]
               /\ loc' = [loc EXCEPT ![p] = [NoLocals EXCEPT !.op = "create_forum_thread",
                               !.result = "ValidationError"]]
          ELSE /\ pc' = [pc EXCEPT ![p] = "ct_thread"]
               /\ loc' = [loc EXCEPT ![p] = [NoLocals EXCEPT !.op = "create_forum_thread",
                               !.title = clean_title, !.nickname = clean_nick,
                               !.message = clean_message, !.created_at = now]]
       /\ UNCHANGED <<epdVars, portalVars, db, pend, writer, now, clientVars, reply, fsVars>>

\* reply_thread's guard: `thread = db.get_thread(thread_id); if not thread: 404`
reply_threadFoundAlways(d, thread_id) == TRUE
reply_threadFound(d, thread_id) == get_thread(d, thread_id) # <<>>

\* POST /forum/{thread_id}/reply
reply_thread(p, thread_id, nickname, message) ==
    LET clean_nick == normalize_nickname(nickname)
        clean_message == normalize_message(message, MAX_MESSAGE_LEN)
    IN /\ Idle(p)
       /\ Len(db.forum_posts) + Busy(PostPcs) < MaxPosts
       /\ IF ~reply_threadFound(db, thread_id)
          THEN /\ pc' = [pc EXCEPT ![p] = "done"]
               /\ loc' = [loc EXCEPT ![p] = [NoLocals EXCEPT !.op = "reply_thread",
                               !.thread_id = thread_id, !.result = "NotFound"]]
          ELSE IF clean_message = <<>>
          THEN /\ pc' = [pc EXCEPT ![p] = "done"]
               /\ loc' = [loc EXCEPT ![p] = [NoLocals EXCEPT !.op = "reply_thread",
                               !.thread_id = thread_id, !.result = "ValidationError"]]
          ELSE /\ pc' = [pc EXCEPT ![p] = "ip_execute"]
               /\ loc' = [loc EXCEPT ![p] = [NoLocals EXCEPT !.op = "reply_thread",
                               !.thread_id = thread_id, !.nickname = clean_nick,
                               !.message = clean_message, !.created_at = now]]
       /\ UNCHANGED <<epdVars, portalVars, db, pend, writer, now, clientVars, reply, fsVars>>

\* the status code FastAPI answers with
StatusCode(l) ==
    CASE l.result = "ok" -> IF l.op = "post_chat_message" THEN 200 ELSE 303
      [] l.result = "NotFound" -> 404
      [] l.result \in {"ValidationError", "Message too long"} -> 400
      [] OTHER -> 500

\* the forum as the HTTP surface drives it
NextHTTP ==
    \/ \E p \in Procs, t \in RawTexts, n \in RawTexts, m \in RawTexts :
            create_forum_thread(p, t, n, m)
    \/ \E p \in Procs, k \in ThreadIdInputs, n \in RawTexts, m \in RawTexts :
            reply_thread(p, k, n, m)
    \/ ForumSteps

SpecHTTP == Init /\ [][NextHTTP]_vars

\* --- the form handlers: chat and forum posts ---------------------------------
\* POST /api/chat/messages
post_chat_message(p, nickname, message) ==
    LET clean_nick == normalize_nickname(nickname)
        clean_message == normalize_message(message, MAX_MESSAGE_LEN)
        failed(detail) == [NoLocals EXCEPT !.op = "post_chat_message", !.result = detail]
    IN /\ Idle(p)
       /\ InFlight("chat_messages", {"insert_chat_message", "post_chat_message"}) < MaxRows
       /\ IF clean_message = <<>>
          THEN /\ pc' = [pc EXCEPT ![p] = "done"]
               /\ loc' = [loc EXCEPT ![p] = failed("ValidationError")]
          ELSE IF Len(clean_message) > MAX_MESSAGE_LEN
          THEN /\ pc' = [pc EXCEPT ![p] = "done"]
               /\ loc' = [loc EXCEPT ![p] = failed("Message too long")]
          ELSE /\ pc' = [pc EXCEPT ![p] = "icm_execute"]
               /\ loc' = [loc EXCEPT ![p] = [NoLocals EXCEPT !.op = "post_chat_message",
                               !.nickname = clean_nick, !.message = clean_message,
                               !.created_at = now]]
       /\ UNCHANGED <<epdVars, portalVars, db, pend, writer, now, clientVars, reply, fsVars>>

\* form fields: absent, empty, whitespace only, and a text
FormTexts == RawTexts \cup {<<>>}

\* the three POST handlers that take a text, with any form fields
NextForms ==
    \/ \E p \in Procs, t \in FormTexts, n \in {None}, m \in FormTexts :
            create_forum_thread(p, t, n, m)
    \/ \E p \in Procs, k \in ThreadIdInputs, n \in {None}, m \in FormTexts :
            reply_thread(p, k, n, m)
    \/ \E p \in Procs, n \in {None}, m \in FormTexts : post_chat_message(p, n, m)
    \/ \E p \in Procs : insert_chat_messageExecute(p)
    \/ \E p \in Procs : insert_chat_messageCommit(p)
    \/ ForumSteps

SpecForms == Init /\ [][NextForms]_vars

\* --- files ------------------------------------------------------------------
\* hashlib.sha256: a running digest folded over the bytes fed to update()
sha256_new == 0
RECURSIVE digest_update(_, _)
digest_update(h, chunk) ==
    IF chunk = <<>> THEN h
    ELSE digest_update((h * 3 + Head(chunk) + 1) % 256, Tail(chunk))

\* hexdigest(): the digest as two hexadecimal digits
HexDigits == <<"0", "1", "2", "3", "4", "5", "6", "7", "8", "9",
               "a", "b", "c", "d", "e", "f">>
hexdigest(h) == <<HexDigits[(h \div 16) + 1], HexDigits[(h % 16) + 1]>>

\* uuid.uuid4().hex: a random 122-bit name; a repeat is not modelled. Names are
\* interchangeable, so the least name not yet issued stands for any fresh one.
uuid4Repeats(n) == {1}
uuid4(n) == {n + 1}

get_file(d, file_id) ==
    LET found == {r \in Rows(d.files) : r.id = file_id}
    IN IF found = {} THEN <<>> ELSE <<CHOOSE r \in found : TRUE>>

list_files(d, limit) == Limit(OrderByIdDesc(Rows(d.files)), limit)

\* GET /files/{file_id}/download
download_file(d, dir, file_id) ==
    LET record == get_file(d, file_id)
    IN IF record = <<>> THEN [status |-> 404, body |-> <<>>, detail |-> "File not found"]
       ELSE IF record[1].stored_name \notin DOMAIN dir
       THEN [status |-> 404, body |-> <<>>, detail |-> "File missing on disk"]
       ELSE [status |-> 200, body |-> dir[record[1].stored_name], detail |-> "ok"]

\* target_path.unlink()
UnlinkAll(dir, name) == <<>>
Unlink(dir, name) == [m \in DOMAIN dir \ {name} |-> dir[m]]

\* `if size_bytes > MAX_UPLOAD_MB * 1024 * 1024`
TooLargeAtLimit(size) == size >= MAX_UPLOAD_BYTES
TooLarge(size) == size > MAX_UPLOAD_BYTES

\* what may be raised while streaming: a read fault and a write fault
\* (OSError), a fault of the hash (an Exception), and an interruption of the
\* caller (KeyboardInterrupt, CancelledError, SystemExit: BaseException only)
StreamFaults == {"read fault", "write fault", "hash fault", "interrupt"}

\* `except Exception:` catches every Exception and no other BaseException
CaughtByExcept(exc) == exc # "interrupt"

\* the except clause of store_upload: delete the target if it exists
ExceptHandler(dir, name, exc) ==
    IF CaughtByExcept(exc) /\ name \in DOMAIN dir THEN Unlink(dir, name) ELSE dir

\* store_upload left by an exception: its frame is gone; what the caller knows
\* is the exception and how many bytes its stream had delivered; the name the
\* call had chosen is kept for the statements about it
Raised(l, exc, size) == [NoLocals EXCEPT !.op = l.op, !.result = exc,
                            !.stored_name = l.stored_name, !.size_bytes = size]

\* loc[p].stream is the bytes file_obj has delivered so far
store_uploadBegin(p, original_name) ==
    /\ Idle(p)
    /\ issued < MaxUploads
    /\ \E name \in uuid4(issued) :
            loc' = [loc EXCEPT ![p] = [NoLocals EXCEPT !.op = "store_upload",
                        !.original_name = original_name, !.stored_name = name,
                        !.digest = sha256_new]]
    /\ issued' = issued + 1
    /\ pc' = [pc EXCEPT ![p] = "su_open"]
    /\ UNCHANGED <<epdVars, portalVars, db, pend, writer, now, clientVars, reply, blobs, uploaded>>

\* target_path.open("wb"): creates the file, or empties it
store_uploadOpen(p) ==
    /\ pc[p] = "su_open"
    /\ blobs' = [m \in DOMAIN blobs \cup {loc[p].stored_name} |->
                    IF m = loc[p].stored_name THEN <<>> ELSE blobs[m]]
    /\ pc' = [pc EXCEPT ![p] = "su_read"]
    /\ UNCHANGED <<epdVars, portalVars, db, pend, writer, loc, now, clientVars, reply, issued, uploaded>>

\* the bytes the hash is fed for a chunk
HashedFirstChunkOnly(l, chunk) == IF l.size_bytes = 0 THEN chunk ELSE <<>>
Hashed(l, chunk) == chunk

\* one turn of the loop: read a chunk, count it, check the size, hash, write
store_uploadChunk(p, chunk) ==
    LET l == loc[p]
        size == l.size_bytes + Len(chunk)
    IN /\ pc[p] = "su_read"
       /\ IF chunk = <<>>
          THEN /\ pc' = [pc EXCEPT ![p] = "if_execute"]
               /\ loc' = [loc EXCEPT ![p].sha256 = hexdigest(l.digest)]
               /\ UNCHANGED blobs
          ELSE IF TooLarge(size)
          THEN /\ pc' = [pc EXCEPT ![p] = "done"]
               /\ loc' = [loc EXCEPT ![p] = Raised(l, "File too large", size)]
               /\ blobs' = ExceptHandler(blobs, l.stored_name, "ValueError")
          ELSE /\ pc' = pc
               /\ loc' = [loc EXCEPT ![p].stream = l.stream \o chunk,
                                     ![p].size_bytes = size,
                                     ![p].digest = digest_update(l.digest, Hashed(l, chunk))]
               /\ blobs' = [blobs EXCEPT ![l.stored_name] = @ \o chunk]
       /\ UNCHANGED <<epdVars, portalVars, db, pend, writer, now, clientVars, reply, issued, uploaded>>

\* something is raised inside the try block
store_uploadRaise(p, exc) ==
    /\ pc[p] \in {"su_open", "su_read"}
    /\ pc' = [pc EXCEPT ![p] = "done"]
    /\ loc' = [loc EXCEPT ![p] = Raised(loc[p], exc, loc[p].size_bytes)]
    /\ blobs' = ExceptHandler(blobs, loc[p].stored_name, exc)
    /\ UNCHANGED <<epdVars, portalVars, db, pend, writer, now, clientVars, reply, issued, uploaded>>

\* db.insert_file called on its own
insert_fileBegin(p, original_name, stored_name, size_bytes, sha256) ==
    /\ Idle(p)
    /\ Len(db.files) + Busy({"if_execute", "if_commit"}) < MaxUploads
    /\ pc' = [pc EXCEPT ![p] = "if_execute"]
    /\ loc' = [loc EXCEPT ![p] = [NoLocals EXCEPT !.op = "insert_file",
                    !.original_name = original_name, !.stored_name = stored_name,
                    !.size_bytes = size_bytes, !.sha256 = sha256]]
    /\ UNCHANGED <<epdVars, portalVars, db, pend, writer, now, clientVars, reply, fsVars>>

insert_fileExecute(p) ==
    /\ pc[p] = "if_execute"
    /\ LockAvailable(writer, p)
    /\ writer' = p
    /\ pend' = [pend EXCEPT ![p] = Insert(db, @, "files",
                    [id |-> 0, original_name |-> loc[p].original_name,
                     stored_name |-> loc[p].stored_name, size_bytes |-> loc[p].size_bytes,
                     sha256 |-> loc[p].sha256, uploaded_at |-> now])]
    /\ loc' = [loc EXCEPT ![p].id = NextId(db, pend[p], "files")]
    /\ pc' = [pc EXCEPT ![p] = "if_commit"]
    /\ UNCHANGED <<epdVars, portalVars, db, now, clientVars, reply, fsVars>>

insert_fileCommit(p) ==
    /\ pc[p] = "if_commit"
    /\ CommitTx(p)
    /\ IF loc[p].op = "insert_file"
       THEN /\ pc' = [pc EXCEPT ![p] = "done"]
            /\ loc' = [loc EXCEPT ![p].result = "ok"]
       ELSE /\ pc' = [pc EXCEPT ![p] = "su_return"]
            /\ loc' = loc
    /\ UNCHANGED <<epdVars, portalVars, now, clientVars, reply, fsVars>>

\* return StoredFile(id=file_id, ..., uploaded_at=_utc_now())
store_uploadReturn(p) ==
    /\ pc[p] = "su_return"
    /\ pc' = [pc EXCEPT ![p] = "done"]
    /\ loc' = [loc EXCEPT ![p].result = "ok", ![p].created_at = now]
    /\ uploaded' = uploaded \cup {<<loc[p].id, loc[p].stream>>}
    /\ UNCHANGED <<epdVars, portalVars, db, pend, writer, now, clientVars, reply, blobs, issued>>

\* concurrent uploads
NextUpload ==
    \/ \E p \in Procs, n \in FileNames : store_uploadBegin(p, n)
    \/ \E p \in Procs : store_uploadOpen(p)
    \/ \E p \in Procs, c \in Reads : store_uploadChunk(p, c)
    \/ \E p \in Procs, e \in StreamFaults : store_uploadRaise(p, e)
    \/ \E p \in Procs : insert_fileExecute(p)
    \/ \E p \in Procs : insert_fileCommit(p)
    \/ \E p \in Procs : store_uploadReturn(p)
    \/ \E p \in Procs : SqliteBusy(p)
    \/ \E p \in Procs : SqliteFault(p)
    \/ \E p \in Procs : Return(p)

SpecUpload == Init /\ [][NextUpload]_vars

\* the operations that return the record they stored, called one at a time
\* while the clock advances
NextRecords ==
    \/ \E n \in Nicknames, m \in Messages : insert_chat_messageBegin(1, n, m)
    \/ insert_chat_messageExecute(1)
    \/ insert_chat_messageCommit(1)
    \/ \E n \in Nicknames, m \in Bodies : insert_postBegin(1, 1, n, m)
    \/ insert_postExecute(1)
    \/ insert_postCommit(1)
    \/ \E n \in FileNames : store_uploadBegin(1, n)
    \/ store_uploadOpen(1)
    \/ \E c \in Reads : store_uploadChunk(1, c)
    \/ \E e \in StreamFaults : store_uploadRaise(1, e)
    \/ insert_fileExecute(1)
    \/ insert_fileCommit(1)
    \/ store_uploadReturn(1)
    \/ SqliteFault(1)
    \/ Return(1)
    \/ Tick

SpecRecords == Init /\ [][NextRecords]_vars

\* every insert operation of the store, concurrently, on all four tables
NextInserts ==
    \/ \E p \in Procs, n \in Nicknames, m \in Bodies : insert_chat_messageBegin(p, n, m)
    \/ \E p \in Procs : insert_chat_messageExecute(p)
    \/ \E p \in Procs : insert_chat_messageCommit(p)
    \/ \E p \in Procs, t \in Titles, n \in Nicknames, m \in Bodies :
            create_threadBegin(p, t, n, m)
    \/ \E p \in Procs, n \in Nicknames, m \in Bodies : insert_postBegin(p, 1, n, m)
    \/ \E p \in Procs, n \in FileNames : insert_fileBegin(p, n, 1, 0, <<>>)
    \/ \E p \in Procs : insert_fileExecute(p)
    \/ \E p \in Procs : insert_fileCommit(p)
    \/ ForumSteps

SpecInserts == Init /\ [][NextInserts]_vars

\* --- the captive portal ------------------------------------------------------
\* the `next` parameters of /captive/ack: absent, empty, an absolute URL, a
\* protocol-relative one, a relative one, and paths of this server
NextInputs == {None, <<>>, <<"h", ":", "/", "/", "e">>, <<"/", "/", "e">>, <<"c">>,
               <<"/">>, <<"/", "c">>, <<"/", "c", "/", "/">>}

\* str.startswith
startswith(raw, prefix) ==
    Len(raw) >= Len(prefix) /\ SubSeq(raw, 1, Len(prefix)) = prefix

_safe_nextSingleSlashOnly(raw) ==
    IF raw = None \/ raw = <<>> THEN <<"/">>
    ELSE IF startswith(raw, <<"/">>) THEN raw
    ELSE <<"/">>
_safe_next(raw) ==
    IF raw = None \/ raw = <<>> THEN <<"/">>
    ELSE IF startswith(raw, <<"/">>) /\ ~startswith(raw, <<"/", "/">>) THEN raw
    ELSE <<"/">>

\* the cookie a request of client c carries: the jar sends the cookie until
\* it has expired; "absent" is request.cookies.get(...) giving None
Sent(c) ==
    IF cookies[c].value # "absent" /\ now <= cookies[c].expires
    THEN cookies[c].value ELSE "absent"

_captive_acknowledgedAnyValue(cookie) == cookie # "absent"
_captive_acknowledged(cookie) == cookie = "1"

\* response.set_cookie(name, value, max_age=...) at time t
set_cookieExpired(value, max_age, t) == [value |-> value, expires |-> t - 1]
set_cookie(value, max_age, t) == [value |-> value, expires |-> t + max_age]

CAPTIVE_PORTAL_PATHS == {"/generate_204", "/gen_204", "/hotspot-detect.html",
                         "/library/test/success.html", "/success.txt", "/success.html",
                         "/ncsi.txt", "/connecttest.txt", "/redirect"}

\* the responses of starlette; `line` is the return statement of main.py
\* that built the response
Response(status_code, line) ==
    [NoResponse EXCEPT !.status = status_code, !.line = line]
HTMLResponse(content, line) ==
    [NoResponse EXCEPT !.status = 200, !.body = content, !.media_type = "text/html",
                       !.line = line]
PlainTextResponse(content, status_code, line) ==
    [NoResponse EXCEPT !.status = status_code, !.body = content,
                       !.media_type = "text/plain", !.line = line]
RedirectResponse(url, status_code, line) ==
    [NoResponse EXCEPT !.status = status_code, !.location = url, !.line = line]
\* templates.TemplateResponse(request, name, ...): the page rendered from the
\* template `name`
TemplateResponse(name, line) == HTMLResponse(name, line)

_captive_success_responseDefault(path) == PlainTextResponse("Success", 200, 310)
_captive_success_response(path) ==
    IF path \in {"/generate_204", "/gen_204"} THEN Response(204, 299)
    ELSE IF path = "/hotspot-detect.html"
    THEN HTMLResponse("<html><body>Success</body></html>", 301)
    ELSE IF path \in {"/library/test/success.html", "/success.html", "/success.txt"}
    THEN PlainTextResponse("Success", 200, 303)
    ELSE IF path = "/ncsi.txt" THEN PlainTextResponse("Microsoft NCSI", 200, 305)
    ELSE IF path = "/connecttest.txt"
    THEN PlainTextResponse("Microsoft Connect Test", 200, 307)
    ELSE IF path = "/redirect" THEN RedirectResponse("/", 302, 309)
    ELSE PlainTextResponse("Success", 200, 310)

\* GET /{path:path}: `path` is the request path without its leading slash
captive_fallbackAllProbes(path, cookie) ==
    IF _captive_acknowledged(cookie) THEN _captive_success_response("/" \o path)
    ELSE RedirectResponse("/captive", 302, 320)
captive_fallback(path, cookie) ==
    LET full_path == "/" \o path
    IN IF full_path \in CAPTIVE_PORTAL_PATHS
       THEN IF _captive_acknowledged(cookie)
            THEN _captive_success_response(full_path)
            ELSE RedirectResponse("/captive", 302, 320)
       ELSE PlainTextResponse("Not found", 404, 321)

\* GET /captive/ack?next=...
captive_ack(next, t) ==
    [TemplateResponse("captive_ack.html", 116) EXCEPT
        !.next = next, !.next_url = _safe_next(next),
        !.set_cookie = set_cookie("1", COOKIE_MAX_AGE, t)]

\* GET /captive
captive_portal == TemplateResponse("captive.html", 92)

\* the pages of the application served by a route of their own
Pages == {"/", "/files", "/chat", "/forum"}
page(url) ==
    CASE url = "/" -> TemplateResponse("index.html", 80)
      [] url = "/files" -> TemplateResponse("files.html", 123)
      [] url = "/chat" -> TemplateResponse("chat.html", 175)
      [] url = "/forum" -> TemplateResponse("forum.html", 216)

\* the GET routes that are matched before the catch-all
DefinedRoutes == Pages \cup {"/captive", "/captive/ack"}

\* request paths, without the leading slash, that no route but the catch-all
\* matches: the probes and paths nobody knows
FallbackPaths == {"generate_204", "gen_204", "hotspot-detect.html",
                  "library/test/success.html", "success.txt", "success.html",
                  "ncsi.txt", "connecttest.txt", "redirect",
                  "definitely-missing", "generate_204/", "captive/"}

\* client c gets the response r to its request for url: the response is
\* recorded with the request, and the jar takes the cookie the response sets
Answered(c, url, r) ==
    /\ response' = [r EXCEPT !.client = c, !.url = url, !.sent = Sent(c)]
    /\ cookies' = IF r.set_cookie = NoCookie THEN cookies
                  ELSE [cookies EXCEPT ![c] = r.set_cookie]
    /\ UNCHANGED <<epdVars, db, pend, writer, pc, loc, now, clientVars, reply, fsVars>>

captive_ackGet(c, next) == Answered(c, "/captive/ack", captive_ack(next, now))

captive_portalGet(c) == Answered(c, "/captive", captive_portal)

pageGet(c, url) == Answered(c, url, page(url))

captive_fallbackGet(c, path) == Answered(c, "/" \o path, captive_fallback(path, Sent(c)))

\* a client that comes with a piratebox_captive_ack cookie this server did
\* not set: "0" stands for any value other than "1"
ForeignCookie == [value |-> "0", expires |-> MaxClock]

InitPortal ==
    /\ InitStore
    /\ DisplayAt("none", TRUE)
    /\ cookies \in [Clients -> {NoCookie, ForeignCookie}]
    /\ response = NoResponse

\* the clients' GET requests while time passes
NextPortal ==
    \/ \E c \in Clients, n \in NextInputs : captive_ackGet(c, n)
    \/ \E c \in Clients : captive_portalGet(c)
    \/ \E c \in Clients, u \in Pages : pageGet(c, u)
    \/ \E c \in Clients, path \in FallbackPaths : captive_fallbackGet(c, path)
    \/ Tick

SpecPortal == InitPortal /\ [][NextPortal]_vars

\* --- init_db and the read queries ---------------------------------------
\* CREATE TABLE IF NOT EXISTS t: an existing table keeps its rows
TableExists(d, t) == t \in DOMAIN d
CreateTableAnew(d, t) == <<>>
CreateTableIfNotExists(d, t) == IF TableExists(d, t) THEN d[t] ELSE <<>>

\* init_db on a store that exists; sqlite_sequence is left alone
init_db ==
    /\ db' = [files |-> CreateTableIfNotExists(db, "files"),
              chat_messages |-> CreateTableIfNotExists(db, "chat_messages"),
              forum_threads |-> CreateTableIfNotExists(db, "forum_threads"),
              forum_posts |-> CreateTableIfNotExists(db, "forum_posts"),
              seq |-> db.seq]
    /\ UNCHANGED <<epdVars, portalVars, pend, writer, pc, loc, now, clientVars, reply, fsVars>>

\* the list_* and get_* queries of db.py
Queries == {"list_files", "get_file", "list_chat_messages",
            "list_threads", "get_thread", "list_posts"}
QueryArgs == {1}

\* what query q answers for the argument a (an id, or after_id), on its own
\* connection: the committed rows only
Answer(d, q, a) ==
    CASE q = "list_files" -> list_files(d, POLL_LIMIT)
      [] q = "get_file" -> get_file(d, a)
      [] q = "list_chat_messages" -> list_chat_messages(d, a, POLL_LIMIT)
      [] q = "list_threads" -> list_threads(d, POLL_LIMIT)
      [] q = "get_thread" -> get_thread(d, a)
      [] q = "list_posts" -> list_posts(d, a)

\* a read request: it runs on its own connection, takes no write lock and
\* hands Answer(db, q, a) to its caller
QueryCall(p, q, a) ==
    /\ Idle(p)
    /\ pc' = [pc EXCEPT ![p] = "done"]
    /\ loc' = [loc EXCEPT ![p] = [NoLocals EXCEPT !.op = q, !.id = a, !.result = "ok"]]
    /\ UNCHANGED <<epdVars, portalVars, db, pend, writer, now, clientVars, reply, fsVars>>

\* the whole interface of the store: every insert, init_db and every query
NextStore ==
    \/ NextInserts
    \/ init_db
    \/ \E p \in Procs, q \in Queries, a \in QueryArgs : QueryCall(p, q, a)

SpecStore == Init /\ [][NextStore]_vars

\* --- the normalizers as pure functions -----------------------------------
\* the characters of the inputs: two kinds of whitespace and two letters
Chars == {" ", "\t", "a", "b"}
Texts == {None} \cup UNION {[1..n -> Chars] : n \in 0..MaxTextLen}
\* values of PIRATEBOX_MAX_NICKNAME_LEN: int() accepts any integer
NicknameLens == (-1..(MaxTextLen + 1)) \cup {Len(Anonymous), Len(Anonymous) + 1}
\* values of the max_len argument
MessageLens == -1..(MaxTextLen + 1)

\* the text a caller holds before the call
Input(value) == [op |-> "input", value |-> value, max_len |-> 0, out |-> <<>>, again |-> <<>>]

\* a call of normalize_nickname, and a second call on its result
normalize_nicknameCall(max_nickname_len) ==
    LET out == normalize_nicknameConfigured(reply.value, max_nickname_len)
    IN /\ reply.op = "input"
       /\ reply' = [reply EXCEPT !.op = "normalize_nickname",
                                 !.max_len = max_nickname_len, !.out = out,
                                 !.again = normalize_nicknameConfigured(out, max_nickname_len)]
       /\ UNCHANGED <<epdVars, portalVars, db, pend, writer, pc, loc, now, clientVars, fsVars>>

\* a call of normalize_message, and a second call on its result
normalize_messageCall(max_len) ==
    LET out == normalize_message(reply.value, max_len)
    IN /\ reply.op = "input"
       /\ reply' = [reply EXCEPT !.op = "normalize_message",
                                 !.max_len = max_len, !.out = out,
                                 !.again = normalize_message(out, max_len)]
       /\ UNCHANGED <<epdVars, portalVars, db, pend, writer, pc, loc, now, clientVars, fsVars>>

\* any text may be given to the normalizers
InitNormalize ==
    /\ db = EmptyDb
    /\ pend = [p \in Procs |-> EmptyTx]
    /\ writer = NoProc
    /\ pc = [p \in Procs |-> "idle"]
    /\ loc = [p \in Procs |-> NoLocals]
    /\ now = 0
    /\ last_id = 0
    /\ received = <<>>
    /\ reply \in {Input(value) : value \in Texts}
    /\ DisplayAt("none", TRUE)
    /\ blobs = <<>>
    /\ issued = 0
    /\ uploaded = {}
    /\ cookies = [c \in Clients |-> NoCookie]
    /\ response = NoResponse

NextNormalize ==
    \/ \E n \in NicknameLens : normalize_nicknameCall(n)
    \/ \E n \in MessageLens : normalize_messageCall(n)

SpecNormalize == InitNormalize /\ [][NextNormalize]_vars

\* --- the e-paper status display ------------------------------------------------
\* PIRATEBOX_EPD_FULL_REFRESH_EVERY, 10 by default; scaled
FULL_REFRESH_EVERY == 2

\* State.set_page and State.toggle_sleep, run without interruption
set_page(st, to_page, total) ==
    [st EXCEPT !.page = IF 0 <= to_page /\ to_page < total THEN to_page ELSE @,
               !.force_refresh = TRUE]
toggle_sleep(st) == [st EXCEPT !.sleeping = ~@, !.force_refresh = TRUE]

\* the panel after driver.init(), driver.sleep() and driver.draw(canvas, full)
driver_init(d) == [d EXCEPT !.power = "awake"]
driver_sleep(d) == [d EXCEPT !.power = "asleep"]
driver_draw(d, shown, full) == [d EXCEPT !.page = shown, !.full = full]

\* the callback of pin idx (on_status, on_network, on_piratebox, on_sleep), run
\* without interruption on sd = the State, the panel and the page asked for
callback(idx, sd) ==
    IF idx <= total_pages
    THEN [sd EXCEPT !.state = set_page(sd.state, idx - 1, total_pages),
                    !.asked = idx - 1]
    ELSE [sd EXCEPT !.state = toggle_sleep(sd.state),
                    !.display = IF sd.state.sleeping THEN driver_init(@) ELSE driver_sleep(@)]

\* ButtonWatcher.poll with RPi.GPIO: pin after pin, a callback on a falling edge
RECURSIVE poll(_, _, _, _)
poll(idx, last_states, current, sd) ==
    IF idx \notin Pins THEN sd
    ELSE poll(idx + 1, last_states, current,
              IF last_states[idx] = 1 /\ current[idx] = 0 THEN callback(idx, sd) ELSE sd)

\* _stats_changed(last_drawn, stats, refresh_policy)
_stats_changed(prev, curr) == prev = Null \/ prev # curr

\* buttons.poll(): nothing unless the pins are polled
main_poll ==
    /\ mainloop.pc = "poll"
    /\ IF button.mode = "polling"
       THEN \E current \in [Pins -> {0, 1}] :
               LET sd == poll(1, button.last_states, current,
                              [state |-> state, display |-> display, asked |-> button.asked])
               IN /\ state' = sd.state
                  /\ display' = sd.display
                  /\ button' = [button EXCEPT !.last_states = current, !.asked = sd.asked]
       ELSE UNCHANGED <<state, display, button>>
    /\ mainloop' = [mainloop EXCEPT !.pc = "check_sleeping"]
    /\ UNCHANGED <<portalVars, db, pend, writer, pc, loc, now, clientVars, reply, fsVars>>

\* if state.sleeping: sleep and continue
main_check_sleeping ==
    /\ mainloop.pc = "check_sleeping"
    /\ mainloop' = [mainloop EXCEPT !.pc = IF state.sleeping THEN "poll" ELSE "collect"]
    /\ UNCHANGED <<state, display, button>>
    /\ UNCHANGED <<portalVars, db, pend, writer, pc, loc, now, clientVars, reply, fsVars>>

\* stats = _collect_stats(...); page_name, renderer = PAGES[state.page]
main_collect ==
    /\ mainloop.pc = "collect"
    /\ \E stats \in StatsValues :
          mainloop' = [mainloop EXCEPT !.pc = "check_changed", !.stats = stats,
                                       !.page = state.page]
    /\ UNCHANGED <<state, display, button>>
    /\ UNCHANGED <<portalVars, db, pend, writer, pc, loc, now, clientVars, reply, fsVars>>

\* skip the refresh when nothing asks for it
main_check_changed ==
    /\ mainloop.pc = "check_changed"
    /\ mainloop' = [mainloop EXCEPT !.pc =
            IF /\ ~state.force_refresh /\ mainloop.on_change
               /\ ~_stats_changed(mainloop.last_drawn, mainloop.stats)
            THEN "poll" ELSE "full"]
    /\ UNCHANGED <<state, display, button>>
    /\ UNCHANGED <<portalVars, db, pend, writer, pc, loc, now, clientVars, reply, fsVars>>

\* the canvas is rendered; full_refresh = state.force_refresh or every n-th loop
main_full ==
    /\ mainloop.pc = "full"
    /\ mainloop' = [mainloop EXCEPT !.pc = "draw", !.full_refresh =
            \/ state.force_refresh
            \/ FULL_REFRESH_EVERY # 0 /\ mainloop.loop_count % FULL_REFRESH_EVERY = 0]
    /\ UNCHANGED <<state, display, button>>
    /\ UNCHANGED <<portalVars, db, pend, writer, pc, loc, now, clientVars, reply, fsVars>>

\* driver.draw(canvas, full_refresh)
main_draw ==
    /\ mainloop.pc = "draw"
    /\ display' = driver_draw(display, mainloop.page, mainloop.full_refresh)
    /\ button' = [button EXCEPT !.asked = IF @ = mainloop.page THEN Null ELSE @]
    /\ mainloop' = [mainloop EXCEPT !.pc = "clear"]
    /\ UNCHANGED state
    /\ UNCHANGED <<portalVars, db, pend, writer, pc, loc, now, clientVars, reply, fsVars>>

\* state.force_refresh = False; last_drawn = stats; loop_count += 1
main_clear ==
    /\ mainloop.pc = "clear"
    /\ state' = [state EXCEPT !.force_refresh = FALSE]
    /\ mainloop' = [mainloop EXCEPT !.pc = "poll", !.last_drawn = mainloop.stats,
                                    !.loop_count = (@ + 1) % FULL_REFRESH_EVERY]
    /\ UNCHANGED <<display, button>>
    /\ UNCHANGED <<portalVars, db, pend, writer, pc, loc, now, clientVars, reply, fsVars>>

\* Ctrl-C anywhere in the loop: buttons.close() and driver.sleep()
KeyboardInterrupt ==
    /\ mainloop.pc # "exited"
    /\ button.pc = "idle"
    /\ display' = driver_sleep(display)
    /\ mainloop' = [mainloop EXCEPT !.pc = "exited"]
    /\ UNCHANGED <<state, button>>
    /\ UNCHANGED <<portalVars, db, pend, writer, pc, loc, now, clientVars, reply, fsVars>>

\* gpiozero calls when_pressed of button idx on its own thread
Press(idx) ==
    /\ button.mode = "gpiozero"
    /\ button.pc = "idle"
    /\ mainloop.pc # "exited"
    /\ button' = IF idx <= total_pages
                 THEN [button EXCEPT !.pc = "sp_page", !.page = idx - 1]
                 ELSE [button EXCEPT !.pc = "ts_test"]
    /\ UNCHANGED <<state, display, mainloop>>
    /\ UNCHANGED <<portalVars, db, pend, writer, pc, loc, now, clientVars, reply, fsVars>>

\* set_page: if 0 <= page < total: self.page = page
set_pagePage ==
    /\ button.pc = "sp_page"
    /\ state' = [state EXCEPT !.page = IF 0 <= button.page /\ button.page < total_pages
                                       THEN button.page ELSE @]
    /\ button' = [button EXCEPT !.pc = "sp_force"]
    /\ UNCHANGED <<display, mainloop>>
    /\ UNCHANGED <<portalVars, db, pend, writer, pc, loc, now, clientVars, reply, fsVars>>

\* set_page: self.force_refresh = True
set_pageForce ==
    /\ button.pc = "sp_force"
    /\ state' = [state EXCEPT !.force_refresh = TRUE]
    /\ button' = [button EXCEPT !.pc = "idle", !.asked = button.page]
    /\ UNCHANGED <<display, mainloop>>
    /\ UNCHANGED <<portalVars, db, pend, writer, pc, loc, now, clientVars, reply, fsVars>>

\* toggle_sleep: if self.sleeping
toggle_sleepTest ==
    /\ button.pc = "ts_test"
    /\ button' = [button EXCEPT !.pc = IF state.sleeping THEN "ts_init" ELSE "ts_sleep"]
    /\ UNCHANGED <<state, display, mainloop>>
    /\ UNCHANGED <<portalVars, db, pend, writer, pc, loc, now, clientVars, reply, fsVars>>

\* toggle_sleep: driver.init()
toggle_sleepInit ==
    /\ button.pc = "ts_init"
    /\ display' = driver_init(display)
    /\ button' = [button EXCEPT !.pc = "ts_awake"]
    /\ UNCHANGED <<state, mainloop>>
    /\ UNCHANGED <<portalVars, db, pend, writer, pc, loc, now, clientVars, reply, fsVars>>

\* toggle_sleep: self.sleeping = False
toggle_sleepAwake ==
    /\ button.pc = "ts_awake"
    /\ state' = [state EXCEPT !.sleeping = FALSE]
    /\ button' = [button EXCEPT !.pc = "ts_force"]
    /\ UNCHANGED <<display, mainloop>>
    /\ UNCHANGED <<portalVars, db, pend, writer, pc, loc, now, clientVars, reply, fsVars>>

\* toggle_sleep: driver.sleep()
toggle_sleepSleep ==
    /\ button.pc = "ts_sleep"
    /\ display' = driver_sleep(display)
    /\ button' = [button EXCEPT !.pc = "ts_asleep"]
    /\ UNCHANGED <<state, mainloop>>
    /\ UNCHANGED <<portalVars, db, pend, writer, pc, loc, now, clientVars, reply, fsVars>>

\* toggle_sleep: self.sleeping = True
toggle_sleepAsleep ==
    /\ button.pc = "ts_asleep"
    /\ state' = [state EXCEPT !.sleeping = TRUE]
    /\ button' = [button EXCEPT !.pc = "ts_force"]
    /\ UNCHANGED <<display, mainloop>>
    /\ UNCHANGED <<portalVars, db, pend, writer, pc, loc, now, clientVars, reply, fsVars>>

\* toggle_sleep: self.force_refresh = True
toggle_sleepForce ==
    /\ button.pc = "ts_force"
    /\ state' = [state EXCEPT !.force_refresh = TRUE]
    /\ button' = [button EXCEPT !.pc = "idle"]
    /\ UNCHANGED <<display, mainloop>>
    /\ UNCHANGED <<portalVars, db, pend, writer, pc, loc, now, clientVars, reply, fsVars>>

\* any way of wiring the buttons, refresh on change or on every loop
InitEpaper ==
    /\ InitStore
    /\ cookies = [c \in Clients |-> NoCookie]
    /\ response = NoResponse
    /\ \E mode \in ButtonModes, on_change \in BOOLEAN : DisplayAt(mode, on_change)

NextEpaper ==
    \/ main_poll
    \/ main_check_sleeping
    \/ main_collect
    \/ main_check_changed
    \/ main_full
    \/ main_draw
    \/ main_clear
    \/ KeyboardInterrupt
    \/ \E idx \in Pins : Press(idx)
    \/ set_pagePage
    \/ set_pageForce
    \/ toggle_sleepTest
    \/ toggle_sleepInit
    \/ toggle_sleepAwake
    \/ toggle_sleepSleep
    \/ toggle_sleepAsleep
    \/ toggle_sleepForce

SpecEpaper == InitEpaper /\ [][NextEpaper]_vars

\* all of the above
Next == NextEpaper \/ NextNormalize \/ NextForumSeq \/ NextChatPage \/ NextRecords \/ NextChat \/ NextChatRead \/ NextChatClock \/ NextForum \/ NextHTTP \/ NextUpload
            \/ NextInserts \/ NextStore \/ NextPortal \/ NextForms
Spec == Init /\ [][Next]_vars

\* ================================================================== claims
StrictlyIncreasingIds(s) == \A i, j \in DOMAIN s : i < j => s[i].id < s[j].id

\* the ids of the committed chat messages, smallest first
CommittedChatIds ==
    LET rows == OrderByIdAsc(Rows(db.chat_messages))
    IN [i \in 1..Len(rows) |-> rows[i].id]

\* what the client has received is the committed messages up to some id, each
\* once, in increasing id order
C1_ReceivedIsPrefix ==
    /\ Len(received) <= Len(CommittedChatIds)
    /\ \A i \in 1..Len(received) : received[i] = CommittedChatIds[i]
    /\ last_id = (IF received = <<>> THEN 0 ELSE received[Len(received)])

\* C1: a client polling list_chat_messages with after_id = the largest id it
\* has received gets every committed chat message exactly once and in
\* increasing id order, whatever the interleaving with concurrent inserts and
\* also when more than the poll's limit are pending: at every moment it holds
\* a gapless prefix of the committed ids, and every committed id reaches it.
C1_PollingContract ==
    /\ []C1_ReceivedIsPrefix
    /\ \A i \in 1..MaxRows :
          (i \in Ids(db.chat_messages)) ~> (\E k \in DOMAIN received : received[k] = i)

\* more messages than one poll returns were received, over several polls,
\* and inserts have run into one another
C1_Witness ==
    /\ Len(received) > POLL_LIMIT
    /\ received = CommittedChatIds
    /\ \E p \in Procs : pc[p] = "done" /\ loc[p].result = "database is locked"

\* the answer `r` is right for the store content `d`
C2_RightAnswer(r, d) ==
    LET matching == {x \in Rows(d.chat_messages) : x.id > r.after_id}
    IN /\ StrictlyIncreasingIds(r.rows)
       /\ Rows(r.rows) \subseteq matching
       /\ Len(r.rows) = Min2(r.limit, Cardinality(matching))
       /\ \A x \in matching \ Rows(r.rows) : \A y \in Rows(r.rows) : y.id < x.id

\* C2: list_chat_messages(after_id, limit) answers with exactly the (at most
\* limit) stored messages of smallest id among those with id > after_id, in
\* strictly increasing id order, and with no message of id <= after_id.
C2_ListChatMessages ==
    [][reply' # reply => C2_RightAnswer(reply', db)]_vars

\* a read that was cut by its limit and that skipped messages up to after_id
C2_Witness ==
    /\ reply.op = "list_chat_messages"
    /\ reply.after_id >= 1
    /\ reply.limit >= 1
    /\ Len(reply.rows) = reply.limit
    /\ Cardinality({x \in Rows(db.chat_messages) : x.id > reply.after_id}) > reply.limit

\* C3: in every state a reader can see (list_threads, get_thread, list_posts
\* read the committed database), every forum thread has at least one post,
\* also while a create_thread is between its two inserts in another request
\* and after a create_thread failed between them.
C3_NoPostlessThread ==
    LET threads == list_threads(db, Len(db.forum_threads))
    IN /\ Len(threads) = Len(db.forum_threads)
       /\ \A i \in DOMAIN threads :
            /\ threads[i].post_count >= 1
            /\ get_thread(db, threads[i].id) # <<>>
            /\ get_thread(db, threads[i].id)[1].post_count >= 1
            /\ list_posts(db, threads[i].id) # <<>>

\* a thread is committed, one create_thread stands between its two inserts,
\* and another one has failed between its two inserts
C3_Witness ==
    /\ db.forum_threads # <<>>
    /\ \E p, q \in Procs :
          /\ pc[p] = "ct_post"
          /\ pc[q] = "done" /\ loc[q].op = "create_thread" /\ loc[q].raised_at = "ct_post"

\* C4 as stated: right after create_thread returns thread id t, list_posts(t)
\* is exactly one post, of thread t, with the given nickname and message, and
\* list_threads reports post_count = 1 for t.
C4_OnePostAfterCreate ==
    [][\A p \in Procs : create_threadCommit(p) =>
          LET t == loc[p].thread_id
              posts == list_posts(db', t)
              threads == list_threads(db', Len(db'.forum_threads))
          IN /\ Len(posts) = 1
             /\ posts[1].thread_id = t
             /\ posts[1].nickname = loc[p].nickname
             /\ posts[1].message = loc[p].message
             /\ \E i \in DOMAIN threads : threads[i].id = t /\ threads[i].post_count = 1]_vars

\* no FileRecord points at the blob `name`
NoRecordNamed(name) == \A r \in Rows(db.files) : r.stored_name # name

\* C5: store_upload fails with "File too large" exactly when its stream holds
\* more than MAX_UPLOAD_BYTES bytes (a stream of exactly that many succeeds);
\* after that failure there is no FileRecord for the call and its blob is gone.
C5_SizeCeiling ==
    \A p \in Procs : loc[p].op = "store_upload" =>
        /\ pc[p] \in {"su_read", "if_execute", "if_commit", "su_return"} =>
                loc[p].size_bytes <= MAX_UPLOAD_BYTES
        /\ (pc[p] = "done" /\ loc[p].result = "ok") =>
                Len(loc[p].stream) <= MAX_UPLOAD_BYTES
        /\ (pc[p] = "done" /\ loc[p].result = "File too large") =>
                /\ loc[p].size_bytes > MAX_UPLOAD_BYTES
                /\ loc[p].stored_name \notin DOMAIN blobs
                /\ NoRecordNamed(loc[p].stored_name)

\* one upload of exactly the maximum has succeeded, another one was refused
C5_Witness ==
    \E p, q \in Procs :
        /\ pc[p] = "done" /\ loc[p].result = "File too large"
        /\ pc[q] = "done" /\ loc[q].result = "ok"
        /\ Len(loc[q].stream) = MAX_UPLOAD_BYTES

\* C6 as stated: on every failure while streaming (read fault, write fault,
\* hash fault, interruption of the caller) the partly written target file is
\* deleted before the failure propagates, and no FileRecord is created.
C6_CleanupOnEveryFailure ==
    \A p \in Procs :
        (pc[p] = "done" /\ loc[p].op = "store_upload" /\ loc[p].result \in StreamFaults) =>
            /\ loc[p].stored_name \notin DOMAIN blobs
            /\ NoRecordNamed(loc[p].stored_name)

\* SHA-256 of a whole byte string, computed apart from the streaming loop
sha256(B) == hexdigest(digest_update(sha256_new, B))

\* C7: once an upload of bytes B has returned id, the download of id is B,
\* the record's size_bytes is len(B) and its hash is SHA-256(B), and this stays
\* so through every later upload, successful or failed.
C7_RoundTrip ==
    \A u \in uploaded :
        LET record == get_file(db, u[1])
            answer == download_file(db, blobs, u[1])
        IN /\ record # <<>>
           /\ record[1].size_bytes = Len(u[2])
           /\ record[1].sha256 = sha256(u[2])
           /\ answer.status = 200
           /\ answer.body = u[2]

\* an upload of the maximum size is on record and a later upload has failed
C7_Witness ==
    \E u \in uploaded, p \in Procs :
        /\ Len(u[2]) = MAX_UPLOAD_BYTES
        /\ pc[p] = "done" /\ loc[p].op = "store_upload" /\ loc[p].result # "ok"
        /\ loc[p].stored_name > get_file(db, u[1])[1].stored_name

\* C8 as stated: insert_post for a thread_id that names no thread fails and
\* adds no post row, the store itself (the foreign key) enforcing it.
C8_InsertPostNeedsThread ==
    /\ \A r \in Rows(db.forum_posts) : r.thread_id \in Ids(db.forum_threads)
    /\ \A p \in Procs :
          (pc[p] = "done" /\ loc[p].op = "insert_post"
              /\ loc[p].thread_id \notin Ids(db.forum_threads)) => loc[p].result # "ok"

\* C9: whatever createThread and replyThread requests the HTTP surface gets,
\* also replies to ids that name no thread, every post's thread_id names an
\* existing thread; a replyThread to a thread that does not exist answers
\* NotFound (404) and adds no post.
C9_ReferentialIntegrity ==
    /\ \A r \in Rows(db.forum_posts) : r.thread_id \in Ids(db.forum_threads)
    /\ \A p \in Procs : \A r \in Rows(pend[p].forum_posts) :
          r.thread_id \in Ids(db.forum_threads) \cup Ids(pend[p].forum_threads)
    /\ \A p \in Procs :
          (pc[p] = "done" /\ loc[p].op = "reply_thread"
              /\ loc[p].thread_id \notin Ids(db.forum_threads)) =>
                  (loc[p].result = "NotFound" /\ StatusCode(loc[p]) = 404)

\* a reply has been stored, and a reply to an unknown thread was refused
C9_Witness ==
    /\ Len(db.forum_posts) > Len(db.forum_threads)
    /\ \E p \in Procs : /\ pc[p] = "done" /\ loc[p].op = "reply_thread"
                        /\ loc[p].result = "NotFound"
                        /\ loc[p].thread_id > 0

\* C10: in each table the ids of the stored rows are pairwise distinct and
\* strictly increasing in commit order, whatever the interleaving of
\* concurrent inserts; the id of a stored row is never assigned again.
C10_IdsMonotonic ==
    \A t \in TableNames :
        /\ StrictlyIncreasingIds(db[t])
        /\ \A i \in DOMAIN db[t] : db[t][i].id <= db.seq[t]
        /\ \A p \in Procs : \A r \in Rows(pend[p][t]) : r.id > db.seq[t]

\* every table holds two rows, one connection is inside a write transaction
\* and another one is about to insert
C10_Witness ==
    /\ \A t \in TableNames : Len(db[t]) >= 2
    /\ \E p, q \in Procs : pc[p] \in InTxPcs /\ pc[q] \in ExecutePcs

\* C11 as stated: for chat messages the order by id is the order in time: of
\* two stored messages the one with the smaller id has no later created_at,
\* whatever the interleaving of concurrent insert_chat_message calls.
C11_IdOrderIsTimeOrder ==
    \A a, b \in Rows(db.chat_messages) : a.id < b.id => a.created_at <= b.created_at
\* s is the beginning of t
IsPrefix(s, t) == Len(s) <= Len(t) /\ SubSeq(t, 1, Len(s)) = s

\* C12: the store is append-only: no step of an insert, of a query or of
\* init_db on an existing store changes or removes a stored record (every
\* table keeps its rows and only gains rows at its end); a query and init_db
\* change nothing; and over a step that commits no insert (sqlite_sequence
\* stays as it is) every query answers as before, so that a read repeated
\* with no insert in between gets the same rows.
C12_AppendOnly ==
    [][/\ \A t \in TableNames : IsPrefix(db[t], db'[t])
       /\ (init_db \/ \E p \in Procs, q \in Queries, a \in QueryArgs : QueryCall(p, q, a))
            => db' = db
       /\ db'.seq = db.seq =>
            \/ db' = db
            \/ \A q \in Queries, a \in QueryArgs : Answer(db', q, a) = Answer(db, q, a)]_vars

\* a query has answered with stored rows while every table holds rows and
\* another connection holds a row it has not committed
C12_Witness ==
    \E p, q \in Procs :
        /\ pc[p] = "done" /\ loc[p].op \in Queries
        /\ Answer(db, loc[p].op, loc[p].id) # <<>>
        /\ \A t \in TableNames : db[t] # <<>>
        /\ pend[q] # EmptyTx

\* C13: in every state, also in the middle of concurrent uploads, the
\* stored_name of every FileRecord names a file of the blob directory that is
\* complete: its length is size_bytes and its SHA-256 is the recorded hash.
C13_RecordedBlobComplete ==
    \A r \in Rows(db.files) :
        /\ r.stored_name \in DOMAIN blobs
        /\ Len(blobs[r.stored_name]) = r.size_bytes
        /\ sha256(blobs[r.stored_name]) = r.sha256

\* a blob of the largest size is on record while another upload has written
\* a part of its own blob
C13_Witness ==
    /\ \E r \in Rows(db.files) : r.size_bytes = MAX_UPLOAD_BYTES
    /\ \E p \in Procs : /\ pc[p] = "su_read"
                        /\ blobs[loc[p].stored_name] # <<>>

C15_UnacknowledgedRedirect ==
    (response.url \in CAPTIVE_PORTAL_PATHS /\ response.sent # "1") =>
        (response.status = 302 /\ response.location = "/captive")

\* a probe that carried the cookie with another value than "1" was answered
C15_Witness ==
    /\ response.url = "/ncsi.txt"
    /\ response.sent = "0"

\* the table of the probe answers for an acknowledged client:
\* <<status, body, media type, Location>>
ProbeTable(url) ==
    CASE url \in {"/generate_204", "/gen_204"} -> <<204, "", "", "">>
      [] url = "/hotspot-detect.html" ->
            <<200, "<html><body>Success</body></html>", "text/html", "">>
      [] url \in {"/library/test/success.html", "/success.html", "/success.txt"} ->
            <<200, "Success", "text/plain", "">>
      [] url = "/ncsi.txt" -> <<200, "Microsoft NCSI", "text/plain", "">>
      [] url = "/connecttest.txt" -> <<200, "Microsoft Connect Test", "text/plain", "">>
      [] url = "/redirect" -> <<302, "", "", "/">>

\* C16: the answer to an acknowledged client for each known probe path is
\* the one of the table, and every path of CAPTIVE_PORTAL_PATHS is answered by
\* a branch of its own of _captive_success_response, never by its last,
\* default return.
C16_SuccessTable ==
    /\ (response.url \in CAPTIVE_PORTAL_PATHS /\ response.sent = "1") =>
          /\ <<response.status, response.body, response.media_type, response.location>>
                = ProbeTable(response.url)
          /\ response.line # 310
    /\ \A path \in CAPTIVE_PORTAL_PATHS : _captive_success_response(path).line # 310

\* an acknowledged client asked for /redirect
C16_Witness ==
    /\ response.url = "/redirect"
    /\ response.sent = "1"
    /\ response.location = "/"

\* C17: a GET for a path that is neither a route of the application nor a
\* known probe path is answered with 404 and the plain text `Not found`,
\* acknowledged or not, and leaves the client's acknowledgment as it is.
C17_UnknownPathNotFound ==
    [][\A c \in Clients, path \in FallbackPaths :
          (captive_fallbackGet(c, path)
              /\ ("/" \o path) \notin DefinedRoutes \cup CAPTIVE_PORTAL_PATHS) =>
                /\ response'.status = 404
                /\ response'.body = "Not found"
                /\ response'.media_type = "text/plain"
                /\ cookies' = cookies]_vars

\* an acknowledged client was told `Not found`
C17_Witness ==
    /\ response.status = 404
    /\ response.sent = "1"
    /\ _captive_acknowledged(Sent(response.client))

\* client c counts as acknowledged: its requests carry the cookie with "1"
Acked(c) == _captive_acknowledged(Sent(c))

\* client c asks for a known probe path
ProbeGet(c) ==
    \E path \in FallbackPaths :
        captive_fallbackGet(c, path) /\ ("/" \o path) \in CAPTIVE_PORTAL_PATHS

\* the answer is the redirect to the splash page
RedirectedToCaptive(r) == r.status = 302 /\ r.location = "/captive"

\* C18 as stated: once a client has been acknowledged (its jar took the cookie
\* with "1"), every later probe request of that client gets the success
\* response of its path and never the redirect to /captive.
C18_OnceAcknowledgedAlways ==
    [][\A c \in Clients :
          (cookies[c].value = "1" /\ ProbeGet(c)) => ~RedirectedToCaptive(response')]_vars

\* C18, amended: a client starts unacknowledged; GET /captive/ack is the only
\* operation that makes a client acknowledged and it does so whatever `next`
\* is; no endpoint changes the acknowledgment of a client otherwise, none
\* makes a client unacknowledged (only the expiry of the cookie, max_age
\* after the latest /captive/ack, does), a request of one client leaves the
\* cookie of every other client alone, and a probe of a client is answered by
\* that client's acknowledgment alone: with the success response of the path
\* while the client is acknowledged, with the redirect to /captive otherwise.
C18_AckStateMachine ==
    /\ \A c \in Clients : ~Acked(c)
    /\ [][\A c \in Clients :
             /\ (~Acked(c) /\ Acked(c)') => \E n \in NextInputs : captive_ackGet(c, n)
             /\ \A n \in NextInputs : captive_ackGet(c, n) => Acked(c)'
             /\ (Acked(c) /\ ~Acked(c)') => Tick
             /\ (response'.client # c /\ ~Tick) => cookies'[c] = cookies[c]
             /\ ProbeGet(c) =>
                   IF Acked(c)
                   THEN /\ ~RedirectedToCaptive(response')
                        /\ response' = [_captive_success_response(response'.url) EXCEPT
                                           !.client = c, !.url = response'.url, !.sent = "1"]
                   ELSE RedirectedToCaptive(response')]_vars

\* one client is acknowledged and got the success response to a probe while
\* the cookie of the other client, acknowledged earlier, has expired
C18_Witness ==
    \E c, d \in Clients :
        /\ Acked(c) /\ ~Acked(d)
        /\ cookies[d].value = "1"
        /\ response.client = c /\ response.url \in CAPTIVE_PORTAL_PATHS
        /\ ~RedirectedToCaptive(response)

\* C19: whatever the `next` parameter of /captive/ack is (absent, empty, an
\* absolute URL, protocol-relative, relative, a path), the forward target
\* chosen by _safe_next starts with "/" and not with "//"; it is `next` when
\* `next` is already so, and "/" otherwise.
C19_SafeNext ==
    response.url = "/captive/ack" =>
        LET next == response.next
            target == response.next_url
            safe(t) == /\ t # None /\ Len(t) >= 1 /\ t[1] = "/"
                       /\ (Len(t) >= 2 => t[2] # "/")
        IN /\ safe(target)
           /\ target = (IF safe(next) THEN next ELSE <<"/">>)

\* /captive/ack was asked with a protocol-relative `next` and forwards to "/"
C19_Witness ==
    /\ response.url = "/captive/ack"
    /\ response.next = <<"/", "/", "e">>
    /\ response.next_url = <<"/">>

\* a form field that is empty after normalization: absent, empty, or made of
\* whitespace only
Blank(raw) == raw = None \/ \A i \in DOMAIN raw : IsSpace(raw[i])

\* request p was refused with a ValidationError (400) and no table changed
Refused(p) ==
    /\ pc'[p] = "done"
    /\ loc'[p].result = "ValidationError" /\ StatusCode(loc'[p]) = 400
    /\ db' = db /\ pend' = pend /\ pend[p] = EmptyTx

\* C20 as stated: a createThread, postChatMessage or replyThread request whose
\* title or message is empty after normalization is refused with a
\* ValidationError (400) and leaves every table as it is.
C20_BlankIsValidationError ==
    [][\A p \in Procs, m \in {x \in FormTexts : Blank(x)} :
          /\ \A t \in FormTexts :
                (create_forum_thread(p, t, None, m) \/ create_forum_thread(p, m, None, t))
                    => Refused(p)
          /\ post_chat_message(p, None, m) => Refused(p)
          /\ \A k \in ThreadIdInputs : reply_thread(p, k, None, m) => Refused(p)]_vars

\* C20, amended: createThread with a blank title or message, postChatMessage
\* with a blank message and replyThread to an existing thread with a blank
\* message are refused with a ValidationError (400); replyThread to a thread
\* that does not exist is refused with NotFound (404), blank message or not;
\* in each case no table changes and the request inserts nothing.
C20_BlankIsRefused ==
    [][\A p \in Procs, m \in {x \in FormTexts : Blank(x)} :
          /\ \A t \in FormTexts :
                (create_forum_thread(p, t, None, m) \/ create_forum_thread(p, m, None, t))
                    => Refused(p)
          /\ post_chat_message(p, None, m) => Refused(p)
          /\ \A k \in ThreadIdInputs :
                reply_thread(p, k, None, m) =>
                    IF k \in Ids(db.forum_threads)
                    THEN Refused(p)
                    ELSE /\ pc'[p] = "done"
                         /\ loc'[p].result = "NotFound" /\ StatusCode(loc'[p]) = 404
                         /\ db' = db /\ pend' = pend /\ pend[p] = EmptyTx]_vars

\* with rows in every table of the forum and of the chat, a reply with a blank
\* message to an existing thread has been refused
C20_Witness ==
    /\ db.chat_messages # <<>> /\ db.forum_posts # <<>>
    /\ \E p \in Procs :
          /\ pc[p] = "done" /\ loc[p].op = "reply_thread"
          /\ loc[p].result = "ValidationError"
          /\ loc[p].thread_id \in Ids(db.forum_threads)

\* the text with its ends trimmed and its runs of whitespace made one space
Collapsed(raw) == IF raw = None THEN <<>> ELSE Join(Split(Strip(raw)))

\* form fields whose collapsed text is longer than n
TooLong(n) == {x \in FormTexts : Len(Collapsed(x)) > n}

\* the first n characters of the collapsed text of a form field
Cut(raw, n) == [i \in 1..Min2(n, Len(Collapsed(raw))) |-> Collapsed(raw)[i]]

\* request p goes on to its insert, at pc `at`, with the message cut to the
\* maximum
AcceptedCut(p, at, m) ==
    /\ pc'[p] = at
    /\ loc'[p].message = Cut(m, MAX_MESSAGE_LEN)

NicknameCall == reply.op = "normalize_nickname"
MessageCall == reply.op = "normalize_message"

\* C22: whatever MAX_NICKNAME_LEN is configured, a normalized nickname is at
\* most that long, and a missing or blank nickname gives exactly Anonymous
C22_NicknameBounded ==
    NicknameCall =>
        /\ Len(reply.out) <= reply.max_len
        /\ Blank(reply.value) => reply.out = Anonymous

\* the text read character by character: a whitespace character is dropped at
\* the start or after another one and becomes one space otherwise
RECURSIVE Squeeze(_, _)
Squeeze(s, afterSpace) ==
    IF s = <<>> THEN <<>>
    ELSE IF IsSpace(Head(s))
         THEN (IF afterSpace THEN <<>> ELSE <<" ">>) \o Squeeze(Tail(s), TRUE)
         ELSE <<Head(s)>> \o Squeeze(Tail(s), FALSE)
\* ... and a space left at the end is dropped
Squeezed(raw) ==
    IF raw = None THEN <<>>
    ELSE LET t == Squeeze(raw, TRUE)
         IN IF t # <<>> /\ t[Len(t)] = " " THEN SubSeq(t, 1, Len(t) - 1) ELSE t
FirstChars(s, n) == [i \in 1..Min2(n, Len(s)) |-> s[i]]
DoubleSpace(s) == \E i \in 1..(Len(s) - 1) : IsSpace(s[i]) /\ IsSpace(s[i + 1])

\* C23: for max_len >= 0, normalize_message gives the first max_len characters
\* of the text with its ends trimmed and every whitespace run made one space;
\* at most max_len characters, never two whitespace characters in a row, and
\* the empty string for a missing or blank text
C23_MessageNormalized ==
    (MessageCall /\ reply.max_len >= 0) =>
        /\ reply.out = FirstChars(Squeezed(reply.value), reply.max_len)
        /\ Len(reply.out) <= reply.max_len
        /\ ~DoubleSpace(reply.out)
        /\ Blank(reply.value) => reply.out = <<>>

\* a text with a whitespace run inside and whitespace at an end was collapsed
\* and then cut
C23_Witness ==
    /\ MessageCall
    /\ reply.value # None
    /\ DoubleSpace(reply.value)
    /\ IsSpace(reply.value[1]) \/ IsSpace(reply.value[Len(reply.value)])
    /\ reply.max_len > 0
    /\ reply.max_len < Len(Squeezed(reply.value))
    /\ Len(reply.out) = reply.max_len

\* C28: normalize_nickname and normalize_message, given their own output and
\* the same maximum (taken positive here), return it unchanged, and the output
\* neither begins nor ends with whitespace
C28_Idempotent ==
    ((NicknameCall \/ MessageCall) /\ reply.max_len > 0) =>
        /\ reply.again = reply.out
        /\ reply.out # <<>> =>
              /\ ~IsSpace(reply.out[1])
              /\ ~IsSpace(reply.out[Len(reply.out)])

\* --- forum queries -----------------------------------------------------------
StrictlyDescendingIds(rows) == \A i, j \in DOMAIN rows : i < j => rows[i].id > rows[j].id
PostsOf(t) == {r \in Rows(db.forum_posts) : r.thread_id = t}
\* the aggregates of a thread summary agree with what list_posts returns
SummaryAgrees(thread) ==
    LET posts == list_posts(db, thread.id)
    IN /\ thread.post_count = Len(posts)
       /\ thread.post_count >= 1
       /\ thread.last_activity # Null
       /\ \E i \in DOMAIN posts : posts[i].created_at = thread.last_activity
       /\ \A i \in DOMAIN posts : posts[i].created_at <= thread.last_activity

\* C24: whatever create_thread and insert_post have committed, list_threads
\* returns at most `limit` threads, newest first; the post_count and
\* last_activity of every thread of list_threads and get_thread are the number
\* and the latest created_at of the posts list_posts returns for it; and
\* list_posts returns exactly the posts of the thread, oldest first
C24_ForumQueries ==
    /\ \A limit \in 0..MaxLimit :
          LET threads == list_threads(db, limit)
          IN /\ Len(threads) <= limit
             /\ StrictlyDescendingIds(threads)
             /\ \A i \in DOMAIN threads : SummaryAgrees(threads[i])
    /\ \A k \in ThreadIdInputs :
          /\ \A i \in DOMAIN get_thread(db, k) : SummaryAgrees(get_thread(db, k)[i])
          /\ Rows(list_posts(db, k)) = PostsOf(k)
          /\ Len(list_posts(db, k)) = Cardinality(PostsOf(k))
          /\ StrictlyIncreasingIds(list_posts(db, k))

\* two threads, the newer one with a reply written a second after its first
\* post, and a limit that leaves a thread out
C24_Witness ==
    /\ Len(db.forum_threads) = 2
    /\ Len(list_threads(db, 1)) = 1
    /\ \E k \in Ids(db.forum_threads) :
          /\ get_thread(db, k)[1].post_count = 2
          /\ get_thread(db, k)[1].last_activity > get_thread(db, k)[1].created_at

\* --- the chat page -------------------------------------------------------------
\* C25: the messages chat_page shows are the (at most CHAT_PAGE_LIMIT) ones
\* with the greatest ids in the store, and its last_id is the greatest chat
\* message id in the store
C25_PageShowsLatest ==
    [][chat_page =>
          LET shown == Ids(reply'.messages)
              stored == Ids(db.chat_messages)
          IN /\ Cardinality(shown) = Min2(CHAT_PAGE_LIMIT, Cardinality(stored))
             /\ shown \subseteq stored
             /\ \A i \in shown, j \in stored \ shown : i > j
             /\ reply'.last_id = IF stored = {} THEN 0 ELSE Max(stored)]_vars

\* --- returned records ----------------------------------------------------------
\* request p has returned from `op` without an exception
Returned(p, op) == pc[p] = "done" /\ loc[p].op = op /\ loc[p].result = "ok"
\* the records the three operations return, from the locals they are built from
ReturnedChatMessage(l) == [id |-> l.id, nickname |-> l.nickname, message |-> l.message,
                           created_at |-> l.created_at]
ReturnedForumPost(l) == [id |-> l.id, thread_id |-> l.thread_id, nickname |-> l.nickname,
                         message |-> l.message, created_at |-> l.created_at]
ReturnedStoredFile(l) == [id |-> l.id, original_name |-> l.original_name,
                          stored_name |-> l.stored_name, size_bytes |-> l.size_bytes,
                          sha256 |-> l.sha256, uploaded_at |-> l.created_at]
\* the row with that id in what a read returns
ReadBack(rows, id) == {rows[i] : i \in {j \in DOMAIN rows : rows[j].id = id}}

\* C26: the record insert_chat_message, insert_post and store_upload return is
\* field for field, timestamp included, the record list_chat_messages,
\* list_posts and get_file read back for its id
C26_ReturnedIsStored ==
    \A p \in Procs :
        /\ Returned(p, "insert_chat_message") =>
              ReadBack(list_chat_messages(db, 0, -1), loc[p].id) = {ReturnedChatMessage(loc[p])}
        /\ Returned(p, "insert_post") =>
              ReadBack(list_posts(db, loc[p].thread_id), loc[p].id) = {ReturnedForumPost(loc[p])}
        /\ Returned(p, "store_upload") =>
              ReadBack(get_file(db, loc[p].id), loc[p].id) = {ReturnedStoredFile(loc[p])}

\* --- orphan blobs ----------------------------------------------------------------
\* no store_upload call is under way
NoUploadUnderWay == \A p \in Procs : loc[p].op = "store_upload" => pc[p] = "done"

\* C27: once the store_upload calls have returned or raised, whatever the
\* outcome, every file of the blob directory is the stored_name of exactly one
\* FileRecord
C27_NoOrphanBlob ==
    NoUploadUnderWay =>
        \A name \in DOMAIN blobs :
            Cardinality({i \in DOMAIN db.files : db.files[i].stored_name = name}) = 1

\* --- the e-paper status display ------------------------------------------------
\* C29: driver.draw is never called while the display is asleep, that is after
\* a driver.sleep() of toggle_sleep and before the next driver.init(), however
\* the button callbacks interleave with the main loop
C29_NoDrawAsleep == [][main_draw => display.power = "awake"]_vars

\* C30: a force_refresh asked by a page button pressed while the display is
\* awake is never cleared before the page selected by that press was drawn
C30_ForcedRefreshServed ==
    [][(main_clear /\ state.force_refresh /\ ~state.sleeping /\ display.power = "awake")
            => button.asked = Null]_vars

====
